---- MODULE Spec2Model ----
(***************************************************************************)
(* Model of the heap-snapshot plugin, src/snapshot/snapshot_server.js.     *)
(*                                                                         *)
(* The plugin registers four entry points on Node's single-threaded event  *)
(* loop: a SIGUSR2 handler, a 6-hour interval (snapshot check), a 1-hour   *)
(* interval (usage report) and a 60-second one-shot timeout (reminder).    *)
(* The event loop runs one callback at a time, to completion; while a      *)
(* callback runs (v8.writeHeapSnapshot blocks), time passes and signals    *)
(* and timers become due, but they are dispatched only once the running    *)
(* callback has returned.                                                  *)
(*                                                                         *)
(* Time is in milliseconds since the module was loaded.  Date.now() is     *)
(* WallAtStart + now.  Strings are sequences of tokens (literal pieces and *)
(* single characters of rendered numbers).                                 *)
(***************************************************************************)
EXTENDS Integers, Sequences, FiniteSets, TLC

(* ---- program constants ------------------------------------------------ *)

SNAPSHOT_INTERVAL_HOURS == 6

SAFE_HEAP_THRESHOLD_MB == 250

(* ---- bounds of the model ---------------------------------------------- *)

\* callbacks the event loop dispatches in one run
MaxCallbacks == 2

\* events of the environment in one run: advances of the clock and SIGUSR2
\* signals sent to the process
MaxEvents == 3

\* events of the environment in one run of the fair specification
MaxLiveEvents == 2

\* Date.now() when the module is loaded
WallAtStart == 1000000000

(* ---- inputs ----------------------------------------------------------- *)

MiB == 1024 * 1024

\* used_heap_size / heapUsed readings, in bytes: well under, exactly at,
\* one byte over, and well over the threshold
HeapReadings == {100 * MiB, 250 * MiB, 250 * MiB + 1, 300 * MiB}

\* process.memoryUsage().heapUsed readings of the usage report, in bytes
UsageReadings == {100 * MiB, 300 * MiB}

\* err.message of a failed v8.writeHeapSnapshot
Errors == {"ENOSPC", "EACCES"}

\* path.dirname(require.main.filename)
rootDir == "<rootDir>"

(* ---- rendering -------------------------------------------------------- *)

DigitChar(d) == <<"0", "1", "2", "3", "4", "5", "6", "7", "8", "9">>[d + 1]

\* String(n) for a non-negative integer: its decimal digits
RECURSIVE Digits(_)
Digits(n) == IF n < 10 THEN <<DigitChar(n)>>
             ELSE Digits(n \div 10) \o <<DigitChar(n % 10)>>

\* (bytes / (1024 * 1024)).toFixed(1): the nearest tenth, halves up; the
\* division by 2^20 is exact in a double, so the rounding is that of the
\* exact quotient.  Computed on the whole and fractional parts apart to
\* stay within 32 bits.
Tenths(bytes) == (bytes \div MiB) * 10 + ((bytes % MiB) * 10 + MiB \div 2) \div MiB

toFixed1(bytes) == Digits(Tenths(bytes) \div 10) \o <<".">> \o <<DigitChar(Tenths(bytes) % 10)>>

\* `${rootDir}/heap-${Date.now()}.heapsnapshot`
FilenameSeconds(t) == <<rootDir, "/heap-">> \o Digits(t \div 1000) \o <<".heapsnapshot">>

Filename(t) == <<rootDir, "/heap-">> \o Digits(t) \o <<".heapsnapshot">>

(* ---- log lines -------------------------------------------------------- *)

Entry(level, msg) == [level |-> level, msg |-> msg]

CurrentHeapLog(bytes) ==
    Entry("info", <<"[SNAPSHOT] Current heap used: ">> \o toFixed1(bytes) \o <<" MB">>)

SkippedLogThresholdFixed1(bytes) ==
    Entry("error", <<"Snapshot skipped: heap ">> \o toFixed1(bytes) \o <<" MB > safe ">>
                   \o toFixed1(SAFE_HEAP_THRESHOLD_MB * MiB) \o <<" MB">>)

SkippedLog(bytes) ==
    Entry("error", <<"Snapshot skipped: heap ">> \o toFixed1(bytes) \o <<" MB > safe ">>
                   \o Digits(SAFE_HEAP_THRESHOLD_MB) \o <<" MB">>)

WrittenLogBareName(file, bytes) ==
    Entry("info", <<"[SNAPSHOT] Snapshot written: ">> \o Tail(file) \o <<" (used ">>
                  \o toFixed1(bytes) \o <<" MB)">>)

WrittenLog(file, bytes) ==
    Entry("info", <<"[SNAPSHOT] Snapshot written: ">> \o file \o <<" (used ">>
                  \o toFixed1(bytes) \o <<" MB)">>)

FailedLogNoReason(message) == Entry("error", <<"[SNAPSHOT] Snapshot failed:">>)

FailedLog(message) == Entry("error", <<"[SNAPSHOT] Snapshot failed:", message>>)

SignalLogNone == << >>

SignalLog == <<Entry("info", <<"[SNAPSHOT] SIGUSR2 --> taking snapshot">>)>>

PeriodicLog == <<Entry("info", <<"[SNAPSHOT] Periodic snapshot check">>)>>

UsageLog(bytes) ==
    Entry("info", <<"[SNAPSHOT] Heap used: ">> \o toFixed1(bytes) \o <<" MB">>)

ReminderLog ==
    Entry("warn", <<"[SNAPSHOT] Snapshot is running - be sure to read all instructions in the file">>)

(* ---- timers ----------------------------------------------------------- *)

SnapshotPeriodMinutes == SNAPSHOT_INTERVAL_HOURS * 60 * 1000

SnapshotPeriod == SNAPSHOT_INTERVAL_HOURS * 60 * 60 * 1000

UsagePeriodScaled == SNAPSHOT_INTERVAL_HOURS * 60 * 60 * 1000

UsagePeriod == 1 * 60 * 60 * 1000

ReminderDelay == 60 * 1000

\* a timer: when it was last armed (Node's _idleStart) and its delay
\* (_idleTimeout); it is due at their sum
Timer(start, delay) == [idleStart |-> start, idleTimeout |-> delay]

\* the delay of a timer that is not scheduled
Off == -1

\* what the reminder timer is after it fired: setTimeout is one-shot
ReminderRepeat(start) == Timer(start, ReminderDelay)

ReminderAfterFiring(start) == Timer(start, Off)

\* where the usage report goes after its log line: it returns
AfterUsageLogTake == "take"

AfterUsageLog == "ret"

\* where takeSnapshot goes after the catch block logged the failure: it
\* returns, with no second call of v8.writeHeapSnapshot
AfterCatchRetry == "write"

AfterCatch == "ret"

\* the statements of takeSnapshot a try block covers
InTryNone(p) == FALSE

InTry(p) == p = "write"

\* the event loop takes the next callback only when none is running
CanDispatchAlways(p) == p \in {"idle", "take", "write", "ret"}

CanDispatch(p) == p = "idle"

VARIABLES
    now,        \* ms since the module was loaded
    signals,    \* SIGUSR2 received and not yet handled
    timers,     \* each timer: when it was armed and its delay (Off: not scheduled)
    pc,         \* position of the running callback, "idle" when none runs
    cb,         \* the running callback: its kind, start time, where its log lines
                \* and writes begin, its takeSnapshot calls, the Date.now() it read
    stats,      \* used_heap_size read by the running takeSnapshot, in bytes
    filename,   \* filename of the running takeSnapshot
    log,        \* every line handed to logInfo / logWarn / logError
    writes,     \* every call of v8.writeHeapSnapshot, with its outcome
    fired,      \* how many callbacks of each kind have been dispatched
    events,     \* events of the environment so far
    crashed     \* an exception left a callback: the process is gone

vars == <<now, signals, timers, pc, cb, stats, filename, log, writes, fired,
          events, crashed>>

Kinds == {"signal", "periodic", "usage", "reminder"}

NoCb == [kind |-> "none", start |-> 0, logStart |-> 0, writeStart |-> 0, takes |-> 0,
         ts |-> 0, outcome |-> "none"]

DateNow == WallAtStart + now

\* heapUsedMB > SAFE_HEAP_THRESHOLD_MB, on the exact quotient bytes / 2^20
ExceedsFloor(bytes) == bytes \div MiB > SAFE_HEAP_THRESHOLD_MB

ExceedsOrEqual(bytes) == bytes >= SAFE_HEAP_THRESHOLD_MB * MiB

ExceedsOrBacksOff(bytes) ==
    \/ bytes > SAFE_HEAP_THRESHOLD_MB * MiB
    \/ Len(writes) > 0 /\ ~writes[Len(writes)].ok

Exceeds(bytes) == bytes > SAFE_HEAP_THRESHOLD_MB * MiB

Due(t) == t.idleTimeout # Off /\ now >= t.idleStart + t.idleTimeout

Dispatched == fired["signal"] + fired["periodic"] + fired["usage"] + fired["reminder"]

Init ==
    /\ now = 0
    /\ signals = 0
    /\ timers = [periodic |-> Timer(0, SnapshotPeriod), usage |-> Timer(0, UsagePeriod),
                 reminder |-> Timer(0, ReminderDelay)]
    /\ pc = "idle"
    /\ cb = NoCb
    /\ stats = 0
    /\ filename = << >>
    /\ log = << >>
    /\ writes = << >>
    /\ fired = [k \in Kinds |-> 0]
    /\ events = 0
    /\ crashed = FALSE

(* ---- the environment -------------------------------------------------- *)

\* time passes: between callbacks, and while v8.writeHeapSnapshot blocks
Tick ==
    /\ ~crashed
    /\ pc \in {"idle", "write"}
    /\ events < MaxEvents
    /\ \E d \in {1, ReminderDelay, UsagePeriod, SnapshotPeriod} : now' = now + d
    /\ events' = events + 1
    /\ UNCHANGED <<signals, timers, pc, cb, stats, filename, log, writes, fired, crashed>>

\* kill -USR2 <PID>: between callbacks, and while v8.writeHeapSnapshot blocks
SignalArrives ==
    /\ ~crashed
    /\ pc \in {"idle", "write"}
    /\ events < MaxEvents
    /\ events' = events + 1
    /\ signals' = signals + 1
    /\ UNCHANGED <<now, timers, pc, cb, stats, filename, log, writes, fired, crashed>>

(* ---- the callbacks ---------------------------------------------------- *)

Begin(kind) ==
    [kind |-> kind, start |-> now, logStart |-> Len(log) + 1, writeStart |-> Len(writes),
     takes |-> 0, ts |-> 0, outcome |-> "none"]

\* process.on('SIGUSR2', ...): log, then call takeSnapshot
SignalHandler ==
    /\ ~crashed
    /\ CanDispatch(pc)
    /\ Dispatched < MaxCallbacks
    /\ signals > 0
    /\ signals' = signals - 1
    /\ cb' = Begin("signal")
    /\ fired' = [fired EXCEPT !["signal"] = @ + 1]
    /\ log' = log \o SignalLog
    /\ pc' = "take"
    /\ UNCHANGED <<now, timers, stats, filename, writes, events, crashed>>

\* setInterval(..., SNAPSHOT_INTERVAL_HOURS * 60 * 60 * 1000): log, then call takeSnapshot
PeriodicCheck ==
    /\ ~crashed
    /\ CanDispatch(pc)
    /\ Dispatched < MaxCallbacks
    /\ Due(timers.periodic)
    /\ cb' = Begin("periodic")
    /\ fired' = [fired EXCEPT !["periodic"] = @ + 1]
    /\ log' = log \o PeriodicLog
    /\ pc' = "take"
    /\ UNCHANGED <<now, signals, timers, stats, filename, writes, events, crashed>>

\* setInterval(..., 1 * 60 * 60 * 1000): log process.memoryUsage().heapUsed
UsageReport ==
    /\ ~crashed
    /\ CanDispatch(pc)
    /\ Dispatched < MaxCallbacks
    /\ Due(timers.usage)
    /\ cb' = Begin("usage")
    /\ fired' = [fired EXCEPT !["usage"] = @ + 1]
    /\ \E u \in UsageReadings : log' = Append(log, UsageLog(u))
    /\ pc' = AfterUsageLog
    /\ UNCHANGED <<now, signals, timers, stats, filename, writes, events, crashed>>

\* setTimeout(..., 60 * 1000): log the reminder
Reminder ==
    /\ ~crashed
    /\ CanDispatch(pc)
    /\ Dispatched < MaxCallbacks
    /\ Due(timers.reminder)
    /\ cb' = Begin("reminder")
    /\ fired' = [fired EXCEPT !["reminder"] = @ + 1]
    /\ log' = Append(log, ReminderLog)
    /\ pc' = "ret"
    /\ UNCHANGED <<now, signals, timers, stats, filename, writes, events, crashed>>

\* takeSnapshot, up to the call of v8.writeHeapSnapshot: read the heap
\* statistics, log them, skip over the threshold, else build the filename
TakeSnapshot ==
    /\ ~crashed
    /\ pc = "take"
    /\ \E used \in HeapReadings :
         /\ stats' = used
         /\ IF Exceeds(used)
            THEN /\ log' = log \o <<CurrentHeapLog(used), SkippedLog(used)>>
                 /\ filename' = << >>
                 /\ cb' = [cb EXCEPT !.takes = @ + 1, !.outcome = "skipped"]
                 /\ pc' = "ret"
            ELSE /\ log' = Append(log, CurrentHeapLog(used))
                 /\ filename' = Filename(DateNow)
                 /\ cb' = [cb EXCEPT !.takes = @ + 1, !.ts = DateNow]
                 /\ pc' = "write"
    /\ UNCHANGED <<now, signals, timers, writes, fired, events, crashed>>

\* v8.writeHeapSnapshot(filename) returns; serializing the whole heap takes
\* longer than a millisecond, so the clock has moved since Date.now()
WriteOk ==
    /\ ~crashed
    /\ pc = "write"
    /\ DateNow > cb.ts
    /\ writes' = Append(writes, [file |-> filename, ts |-> cb.ts, ok |-> TRUE, err |-> ""])
    /\ log' = Append(log, WrittenLog(filename, stats))
    /\ cb' = [cb EXCEPT !.outcome = "written"]
    /\ pc' = "ret"
    /\ UNCHANGED <<now, signals, timers, stats, filename, fired, events, crashed>>

\* v8.writeHeapSnapshot(filename) throws, at once or after a while: the
\* catch block logs err.message; outside a try block the exception leaves
\* the callback
WriteFails ==
    /\ ~crashed
    /\ pc = "write"
    /\ \E message \in Errors :
         /\ writes' = Append(writes, [file |-> filename, ts |-> cb.ts, ok |-> FALSE, err |-> message])
         /\ IF InTry(pc)
            THEN /\ log' = Append(log, FailedLog(message))
                 /\ cb' = [cb EXCEPT !.outcome = "failed"]
                 /\ pc' = AfterCatch
                 /\ crashed' = FALSE
            ELSE /\ log' = log
                 /\ cb' = [cb EXCEPT !.outcome = "thrown"]
                 /\ pc' = "idle"
                 /\ crashed' = TRUE
    /\ UNCHANGED <<now, signals, timers, stats, filename, fired, events>>

\* the callback returns to the event loop, which re-arms an interval from
\* the time the callback started and drops a timeout
Return ==
    /\ ~crashed
    /\ pc = "ret"
    /\ timers' = CASE cb.kind = "periodic" -> [timers EXCEPT !.periodic = Timer(cb.start, SnapshotPeriod)]
                   [] cb.kind = "usage"    -> [timers EXCEPT !.usage = Timer(cb.start, UsagePeriod)]
                   [] cb.kind = "reminder" -> [timers EXCEPT !.reminder = ReminderAfterFiring(cb.start)]
                   [] OTHER                -> timers
    /\ pc' = "idle"
    /\ cb' = NoCb
    /\ stats' = 0
    /\ filename' = << >>
    /\ UNCHANGED <<now, signals, log, writes, fired, events, crashed>>

Next ==
    \/ Tick
    \/ SignalArrives
    \/ SignalHandler
    \/ PeriodicCheck
    \/ UsageReport
    \/ Reminder
    \/ TakeSnapshot
    \/ WriteOk
    \/ WriteFails
    \/ Return

Spec == Init /\ [][Next]_vars

\* The thread keeps running the callback it is in: takeSnapshot goes on to
\* its write, the write returns or throws (it is trusted to end), and the
\* callback returns.
FairNext ==
    \/ events < MaxLiveEvents /\ Tick
    \/ events < MaxLiveEvents /\ SignalArrives
    \/ SignalHandler
    \/ PeriodicCheck
    \/ UsageReport
    \/ Reminder
    \/ TakeSnapshot
    \/ WriteOk
    \/ WriteFails
    \/ Return

FairSpec ==
    /\ Init
    /\ [][FairNext]_vars
    /\ WF_vars(TakeSnapshot \/ WriteOk \/ WriteFails \/ Return)

(* ---- reading the history ---------------------------------------------- *)

\* sub occurs in msg as a run of consecutive tokens
Contains(msg, sub) ==
    \E i \in 1..(Len(msg) - Len(sub) + 1) : SubSeq(msg, i, i + Len(sub) - 1) = sub

\* msg begins with the token piece
StartsWith(msg, piece) == Len(msg) >= 1 /\ msg[1] = piece

\* a takeSnapshot invocation of the running callback has read the heap
Invoked == cb.kind # "none" /\ cb.takes > 0

\* the lines the running callback has logged, and the writes it has attempted
CbLines == cb.logStart..Len(log)

CbWrites == Len(writes) - cb.writeStart

OverThreshold == stats > SAFE_HEAP_THRESHOLD_MB * MiB

\* the running invocation's write was attempted and failed
WriteFailed == Invoked /\ CbWrites > 0 /\ ~writes[Len(writes)].ok

(* ---- C1 --------------------------------------------------------------- *)

\* C1: an invocation of takeSnapshot whose heap reading is strictly over
\* the threshold goes straight to its return without a write attempt, and
\* has logged an error line that contains the reading (MB, one decimal) and
\* the threshold.
C1_SkipOverThreshold ==
    (Invoked /\ OverThreshold) =>
        /\ pc = "ret"
        /\ CbWrites = 0
        /\ \E i \in CbLines :
             /\ log[i].level = "error"
             /\ Contains(log[i].msg, toFixed1(stats))
             /\ Contains(log[i].msg, <<" MB > safe ">> \o Digits(SAFE_HEAP_THRESHOLD_MB))

\* a reading one byte over the threshold was skipped
C1_Witness ==
    /\ pc = "ret"
    /\ Invoked
    /\ stats = SAFE_HEAP_THRESHOLD_MB * MiB + 1
    /\ log[Len(log)] = SkippedLog(stats)

(* ---- C2 --------------------------------------------------------------- *)

\* C2: an invocation of takeSnapshot whose heap reading is at or under the
\* threshold attempts exactly one write: none before the call of
\* v8.writeHeapSnapshot, one when it returns to its caller, and the name
\* written to contains the decimal Date.now() the invocation read.
C2_OneWriteAtOrUnder ==
    (Invoked /\ ~OverThreshold) =>
        /\ pc \in {"write", "ret"}
        /\ pc = "write" => CbWrites = 0 /\ Contains(filename, Digits(cb.ts))
        /\ pc = "ret" =>
             /\ CbWrites = 1
             /\ writes[Len(writes)].file = filename
             /\ Contains(writes[Len(writes)].file, Digits(cb.ts))
        /\ cb.ts >= WallAtStart + cb.start
        /\ cb.ts <= DateNow

\* a reading exactly at the threshold was written
C2_Witness ==
    /\ pc = "ret"
    /\ Invoked
    /\ stats = SAFE_HEAP_THRESHOLD_MB * MiB
    /\ CbWrites = 1
    /\ writes[Len(writes)].ok

(* ---- C3 --------------------------------------------------------------- *)

\* C3: when the write of an invocation fails, the invocation is at its
\* return with nothing thrown, its last line is an error line carrying the
\* failure's message, it has logged no "Snapshot written" line, and it has
\* attempted that one write only.
C3_FailureAbsorbed ==
    WriteFailed =>
        /\ ~crashed
        /\ pc = "ret"
        /\ ENABLED Return
        /\ CbWrites = 1
        /\ log[Len(log)].level = "error"
        /\ Contains(log[Len(log)].msg, <<writes[Len(writes)].err>>)
        /\ \A i \in CbLines : ~StartsWith(log[i].msg, "[SNAPSHOT] Snapshot written: ")

\* a write failed with ENOSPC in a signal-triggered invocation
C3_Witness ==
    /\ WriteFailed
    /\ cb.kind = "signal"
    /\ writes[Len(writes)].err = "ENOSPC"

(* ---- C4 --------------------------------------------------------------- *)

\* C4: no exception ever leaves a callback, and an invocation that took a
\* failure path (skipped over the threshold, or its write failed) returns
\* with an error line of its own as the last line logged.
C4_NothingEscapes ==
    /\ ~crashed
    /\ (pc = "ret" /\ Invoked /\ (OverThreshold \/ WriteFailed)) =>
          /\ Len(log) > cb.logStart
          /\ log[Len(log)].level = "error"

\* a periodic invocation whose write failed is about to return
C4_Witness ==
    /\ pc = "ret"
    /\ cb.kind = "periodic"
    /\ WriteFailed
    /\ ~crashed

(* ---- C5 --------------------------------------------------------------- *)

\* C5: any two write attempts, whatever started them and however closely
\* they follow each other, are to distinct filenames.
C5_FilenamesNeverCollide ==
    \A i, j \in 1..Len(writes) : i # j => writes[i].file # writes[j].file

(* ---- C6 --------------------------------------------------------------- *)

\* C6: two invocations that reached the write step (heap at or under the
\* threshold) and read different Date.now() values wrote to distinct
\* filenames.
C6_DistinctTimestampsDistinctNames ==
    \A i, j \in 1..Len(writes) :
        writes[i].ts # writes[j].ts => writes[i].file # writes[j].file

\* two writes one millisecond apart
C6_Witness ==
    \E i, j \in 1..Len(writes) : writes[j].ts = writes[i].ts + 1

(* ---- C7 --------------------------------------------------------------- *)

\* one of the three lines a takeSnapshot invocation ends with
IsOutcomeLine(e) ==
    \/ e = SkippedLog(stats)
    \/ e = WrittenLog(filename, stats)
    \/ \E m \in Errors : e = FailedLog(m)

\* the running callback has logged its trigger line first, then, with no
\* other line in between, the lines of one takeSnapshot invocation: the
\* current-heap line and, before it returns, one outcome line
TriggerThenSnapshot(first) ==
    /\ pc \in {"take", "write", "ret"}
    /\ Len(log) >= cb.logStart
    /\ log[cb.logStart] = first
    /\ pc = "take" => cb.takes = 0 /\ Len(log) = cb.logStart
    /\ pc \in {"write", "ret"} =>
         /\ cb.takes = 1
         /\ Len(log) > cb.logStart
         /\ log[cb.logStart + 1] = CurrentHeapLog(stats)
    /\ pc = "write" => Len(log) = cb.logStart + 1
    /\ pc = "ret" => Len(log) = cb.logStart + 2 /\ IsOutcomeLine(log[Len(log)])

\* C7: while the SIGUSR2 handler runs, the log since its start is the
\* signal-received line, then the lines of one takeSnapshot invocation
\* starting with its current-heap line, with no other line in between; the
\* handler reaches its return only when that invocation has logged its
\* outcome.
C7_SignalLogThenSnapshot ==
    cb.kind = "signal" =>
        TriggerThenSnapshot(Entry("info", <<"[SNAPSHOT] SIGUSR2 --> taking snapshot">>))

\* a signal-triggered invocation has written its snapshot
C7_Witness ==
    /\ cb.kind = "signal"
    /\ pc = "ret"
    /\ log[Len(log)] = WrittenLog(filename, stats)

(* ---- C8 --------------------------------------------------------------- *)

HourMs == 60 * 60 * 1000

\* C8: the periodic snapshot timer is always scheduled, with a delay of
\* SNAPSHOT_INTERVAL_HOURS hours counted from registration or from the start
\* of its previous firing; it never fires earlier; and each firing logs the
\* periodic-check line and then runs exactly one takeSnapshot invocation.
C8_PeriodicTimer ==
    /\ timers.periodic.idleTimeout = SNAPSHOT_INTERVAL_HOURS * HourMs
    /\ cb.kind = "periodic" =>
         /\ cb.start >= timers.periodic.idleStart + SNAPSHOT_INTERVAL_HOURS * HourMs
         /\ TriggerThenSnapshot(Entry("info", <<"[SNAPSHOT] Periodic snapshot check">>))
    /\ (cb.kind # "periodic" /\ fired["periodic"] > 0) =>
         timers.periodic.idleStart >= fired["periodic"] * SNAPSHOT_INTERVAL_HOURS * HourMs

\* the periodic timer has fired twice
C8_Witness ==
    /\ fired["periodic"] = 2
    /\ cb.kind = "periodic"
    /\ pc = "ret"

(* ---- C9 --------------------------------------------------------------- *)

\* C9: the usage-report timer is always scheduled with a delay of one hour,
\* whatever SNAPSHOT_INTERVAL_HOURS is, and never fires earlier; a firing
\* logs exactly one info line, the heap usage, and then returns: it calls
\* no takeSnapshot and attempts no write, whatever the usage.
C9_UsageReportOnly ==
    /\ timers.usage.idleTimeout = 1 * HourMs
    /\ cb.kind = "usage" =>
         /\ cb.start >= timers.usage.idleStart + 1 * HourMs
         /\ pc = "ret"
         /\ cb.takes = 0
         /\ CbWrites = 0
         /\ Len(log) = cb.logStart
         /\ log[Len(log)].level = "info"
         /\ StartsWith(log[Len(log)].msg, "[SNAPSHOT] Heap used: ")

\* a usage report of a heap over the threshold, before the first periodic check is due
C9_Witness ==
    /\ cb.kind = "usage"
    /\ now < SnapshotPeriod
    /\ log[Len(log)] = UsageLog(300 * MiB)

(* ---- C10 -------------------------------------------------------------- *)

ReminderLines == {i \in 1..Len(log) : log[i].level = "warn"}

\* C10: the reminder line is logged at most once in a run, by the reminder
\* timer's one firing, which happens no earlier than 60 seconds after
\* startup, after which the timer is never scheduled again; the firing
\* calls no takeSnapshot and attempts no write.
C10_ReminderOnce ==
    /\ Cardinality(ReminderLines) = fired["reminder"]
    /\ fired["reminder"] <= 1
    /\ \A i \in ReminderLines : log[i] = ReminderLog
    /\ (fired["reminder"] = 1 /\ cb.kind # "reminder") => timers.reminder.idleTimeout = Off
    /\ fired["reminder"] = 0 => timers.reminder = Timer(0, 60 * 1000)
    /\ cb.kind = "reminder" =>
         /\ cb.start >= 60 * 1000
         /\ pc = "ret"
         /\ cb.takes = 0
         /\ CbWrites = 0
         /\ Len(log) = cb.logStart

\* the reminder was logged after a signal-triggered snapshot, and its timer is off
C10_Witness ==
    /\ fired["reminder"] = 1
    /\ fired["signal"] = 1
    /\ Len(log) > 1
    /\ log[Len(log)] = ReminderLog
    /\ timers.reminder.idleTimeout = Off
    /\ now > 60 * 1000

(* ---- C11 -------------------------------------------------------------- *)

\* the outcome of the running invocation's serialization: "none" when it was
\* not attempted, "ok", or the message it failed with
WriteResult ==
    IF CbWrites = 0 THEN "none"
    ELSE IF writes[Len(writes)].ok THEN "ok" ELSE writes[Len(writes)].err

\* what a firing of a snapshot trigger logs, from the firing's own inputs
\* alone: its kind, heap reading, timestamp and serialization result
FiringLines(kind, used, t, res) ==
    <<Entry("info", IF kind = "signal" THEN <<"[SNAPSHOT] SIGUSR2 --> taking snapshot">>
                    ELSE <<"[SNAPSHOT] Periodic snapshot check">>)>>
    \o <<CurrentHeapLog(used)>>
    \o <<IF used > SAFE_HEAP_THRESHOLD_MB * MiB THEN SkippedLog(used)
         ELSE IF res = "ok" THEN WrittenLog(Filename(t), used)
         ELSE FailedLog(res)>>

\* the writes it attempts, from the same inputs
FiringWrites(used) == IF used > SAFE_HEAP_THRESHOLD_MB * MiB THEN 0 ELSE 1

\* C11: the effect of a trigger's firing is a function of that firing's
\* heap reading, timestamp and serialization result, whatever happened
\* before it: when a signal or periodic callback returns, the lines it
\* logged and the writes it attempted are those the inputs determine, and
\* it returns normally; a usage report logs its one line and a reminder its
\* one line; no firing leaves the process crashed for the next one.
C11_FiringDependsOnInputsOnly ==
    /\ ~crashed
    /\ (pc = "ret" /\ cb.kind \in {"signal", "periodic"}) =>
         /\ SubSeq(log, cb.logStart, Len(log)) = FiringLines(cb.kind, stats, cb.ts, WriteResult)
         /\ CbWrites = FiringWrites(stats)
         /\ CbWrites = 1 => writes[Len(writes)].file = Filename(cb.ts)
    /\ (pc = "ret" /\ cb.kind = "usage") =>
         /\ CbWrites = 0
         /\ \E u \in UsageReadings : SubSeq(log, cb.logStart, Len(log)) = <<UsageLog(u)>>
    /\ (pc = "ret" /\ cb.kind = "reminder") =>
         /\ CbWrites = 0
         /\ SubSeq(log, cb.logStart, Len(log)) = <<ReminderLog>>

\* an invocation wrote its snapshot right after one whose write failed
C11_Witness ==
    /\ pc = "ret"
    /\ cb.kind \in {"signal", "periodic"}
    /\ cb.writeStart >= 1
    /\ ~writes[cb.writeStart].ok
    /\ CbWrites = 1
    /\ writes[Len(writes)].ok

(* ---- C12 -------------------------------------------------------------- *)

\* the running invocation read a heap of exactly 300 MB (threshold 250 MB)
Read300 == Invoked /\ stats = 300 * MiB /\ SAFE_HEAP_THRESHOLD_MB = 250

\* C12 as stated: with threshold 250 MB and usage 300 MB, no write, and the
\* error line reads "Snapshot skipped: heap 300.0 MB > safe 250.0 MB".
C12_SkippedLineBothOneDecimal ==
    Read300 =>
        /\ CbWrites = 0
        /\ log[Len(log)] =
             [level |-> "error",
              msg |-> <<"Snapshot skipped: heap ", "3", "0", "0", ".", "0",
                        " MB > safe ", "2", "5", "0", ".", "0", " MB">>]

\* C12 as amended: with threshold 250 MB and usage 300 MB, no write, and the
\* error line reads "Snapshot skipped: heap 300.0 MB > safe 250 MB": the
\* measured value with one decimal, the threshold as the constant is written.
C12_SkippedLineThresholdPlain ==
    Read300 =>
        /\ pc = "ret"
        /\ CbWrites = 0
        /\ log[Len(log)] =
             [level |-> "error",
              msg |-> <<"Snapshot skipped: heap ", "3", "0", "0", ".", "0",
                        " MB > safe ", "2", "5", "0", " MB">>]

\* a periodic check read 300 MB and was skipped
C12_Witness ==
    /\ Read300
    /\ cb.kind = "periodic"
    /\ pc = "ret"
    /\ log[Len(log)].level = "error"

(* ---- C13 -------------------------------------------------------------- *)

IsTriggerLine(e) ==
    e \in {Entry("info", <<"[SNAPSHOT] SIGUSR2 --> taking snapshot">>),
           Entry("info", <<"[SNAPSHOT] Periodic snapshot check">>)}

IsSingleLine(e) ==
    \/ e = ReminderLog
    \/ \E u \in UsageReadings : e = UsageLog(u)

\* e is an outcome line of the invocation that read the heap as u
IsOutcomeOf(e, u) ==
    \/ u > SAFE_HEAP_THRESHOLD_MB * MiB /\ e = SkippedLog(u)
    \/ /\ u <= SAFE_HEAP_THRESHOLD_MB * MiB
       /\ \/ \E m \in Errors : e = FailedLog(m)
          \/ /\ e.level = "info"
             /\ StartsWith(e.msg, "[SNAPSHOT] Snapshot written: ")
             /\ Contains(e.msg, <<" (used ">> \o toFixed1(u) \o <<" MB)">>)

\* the log from line i on is a sequence of whole callbacks, one after the
\* other: a single line (usage report, reminder), or a trigger line, the
\* current-heap line and the outcome line of the same invocation; only the
\* callback that is still running may have its lines unfinished, at the end
RECURSIVE Uninterleaved(_)
Uninterleaved(i) ==
    IF i > Len(log) THEN TRUE
    ELSE IF IsSingleLine(log[i]) THEN Uninterleaved(i + 1)
    ELSE IF ~IsTriggerLine(log[i]) THEN FALSE
    ELSE IF i = Len(log) THEN pc = "take" /\ cb.logStart = i
    ELSE IF ~(\E u \in HeapReadings : log[i + 1] = CurrentHeapLog(u)) THEN FALSE
    ELSE IF i + 1 = Len(log) THEN pc = "write" /\ cb.logStart = i
    ELSE /\ \E u \in HeapReadings :
              log[i + 1] = CurrentHeapLog(u) /\ IsOutcomeOf(log[i + 2], u)
         /\ Uninterleaved(i + 3)

\* C13: callbacks run to completion, one at a time: the event loop takes a
\* pending signal or a due timer only when no callback is running, also
\* when it became due during the blocking write, and the log is always a
\* sequence of whole callbacks, the lines of no two invocations interleaved.
C13_RunToCompletion ==
    /\ [](Uninterleaved(1))
    /\ [][Dispatched' # Dispatched => (pc = "idle" /\ cb.kind = "none" /\ pc' # "idle")]_vars

\* a signal is pending and the usage timer is due while a write blocks
C13_Witness ==
    /\ pc = "write"
    /\ signals > 0
    /\ Due(timers.usage)
    /\ Dispatched < MaxCallbacks
    /\ ~crashed

(* ---- C14 -------------------------------------------------------------- *)

\* the line of the running callback that follows its trigger line
HeapLine == cb.logStart + 1

\* C14: in every takeSnapshot invocation the current-heap info line comes
\* first, while no write has been attempted, and by the return exactly one
\* line follows it: the skipped error line with no write attempted, or the
\* written info line after a write that succeeded, naming the file written
\* and the usage of the first line, or the failed error line after a write
\* that failed.
C14_HeapLineThenOneOutcome ==
    Invoked =>
        /\ Len(log) >= HeapLine
        /\ log[HeapLine] =
             [level |-> "info",
              msg |-> <<"[SNAPSHOT] Current heap used: ">> \o toFixed1(stats) \o <<" MB">>]
        /\ pc \in {"write", "ret"}
        /\ pc = "write" => Len(log) = HeapLine /\ CbWrites = 0
        /\ pc = "ret" =>
             /\ Len(log) = HeapLine + 1
             /\ \/ /\ CbWrites = 0
                   /\ log[Len(log)].level = "error"
                   /\ StartsWith(log[Len(log)].msg, "Snapshot skipped: heap ")
                \/ /\ CbWrites = 1
                   /\ writes[Len(writes)].ok
                   /\ log[Len(log)] =
                        [level |-> "info",
                         msg |-> <<"[SNAPSHOT] Snapshot written: ">> \o writes[Len(writes)].file
                                 \o <<" (used ">> \o toFixed1(stats) \o <<" MB)">>]
                \/ /\ CbWrites = 1
                   /\ ~writes[Len(writes)].ok
                   /\ log[Len(log)].level = "error"
                   /\ StartsWith(log[Len(log)].msg, "[SNAPSHOT] Snapshot failed:")

\* usage 100 MB: "Current heap used: 100.0 MB", then the written line
C14_Witness ==
    /\ Invoked
    /\ pc = "ret"
    /\ Len(log) = HeapLine + 1
    /\ log[HeapLine].msg = <<"[SNAPSHOT] Current heap used: ", "1", "0", "0", ".", "0", " MB">>
    /\ StartsWith(log[Len(log)].msg, "[SNAPSHOT] Snapshot written: ")

(* ---- C15 -------------------------------------------------------------- *)

SnapshotFirings == fired["signal"] + fired["periodic"]

\* the invocations that were skipped so far
SkippedLines == {i \in 1..Len(log) : StartsWith(log[i].msg, "Snapshot skipped: heap ")}

\* C15: the write attempts made so far are at most the signals handled plus
\* the periodic firings so far, and still so with the skipped invocations
\* counted in (an invocation that skipped or failed is not tried again); a
\* firing attempts at most one write, and a usage report or reminder none.
C15_WritesBoundedByFirings ==
    /\ Len(writes) <= SnapshotFirings
    /\ Len(writes) + Cardinality(SkippedLines) <= SnapshotFirings
    /\ cb.kind # "none" => CbWrites <= 1
    /\ cb.kind \in {"usage", "reminder"} => CbWrites = 0

\* two firings, one write: the signal's write failed, the periodic check skipped
C15_Witness ==
    /\ pc = "idle"
    /\ fired["signal"] = 1
    /\ fired["periodic"] = 1
    /\ Len(writes) = 1
    /\ ~writes[1].ok
    /\ Cardinality(SkippedLines) = 1

(* ---- C16 -------------------------------------------------------------- *)

\* a snapshot trigger was dispatched and is about to call takeSnapshot
Triggered == cb.kind \in {"signal", "periodic"} /\ pc = "take"

\* the running snapshot callback has logged the outcome of its invocation
OutcomeLogged ==
    /\ cb.kind \in {"signal", "periodic"}
    /\ pc = "ret"
    /\ cb.takes = 1
    /\ Len(log) = cb.logStart + 2
    /\ IsOutcomeLine(log[Len(log)])

\* no callback is running and the event loop can take the next one
Returned == pc = "idle" /\ cb.kind = "none" /\ ~crashed

\* C16: with a write that always returns or throws, every signal handled
\* and every periodic firing is followed by the outcome line of its
\* takeSnapshot invocation (skipped, written or failed) and then by the
\* return of its callback, the process alive for the next trigger; no other
\* callback is dispatched in between, so the outcome and the return are
\* those of that firing.
C16_EveryFiringEnds ==
    /\ Triggered ~> OutcomeLogged
    /\ OutcomeLogged ~> Returned
    /\ [][pc # "idle" => Dispatched' = Dispatched]_vars

\* a second signal was handled to its end after the first one's write failed
C16_Witness ==
    /\ Returned
    /\ fired["signal"] = 2
    /\ Len(writes) >= 1
    /\ ~writes[1].ok
    /\ Len(log) = 6

====
